---- MODULE Spec2Model ----
(***************************************************************************)
(* Model of the two scripts of the repository:                             *)
(*   check_ocr.py  analyze_pdf_pages, run_ocr_for_file, process_folder     *)
(*   ocr.py        main (and the worker run_ocr_on_file it never calls)    *)
(*                                                                         *)
(* The file system, the PDF library and the ocrmypdf process are the       *)
(* environment: what a directory lists, what a PDF holds when it is        *)
(* opened and how the OCR process ends are inputs chosen by the actions.   *)
(***************************************************************************)
EXTENDS Integers, Sequences, FiniteSets, TLC

\* ---------------------------------------------------------------- bounds
\* Entries of the source directory.
MaxFiles == 2
\* Pages of a PDF met in a batch run.
MaxPages == 2
\* Pages of a PDF when analyze_pdf_pages is called on its own.
MaxDocPages == 3

\* ------------------------------------------------------ program constants
THRESHOLD == 52

\* ocr.py, line 15.
OUTPUT_SUFFIX == "_ocr"

VARIABLES
    script,            \* which entry point runs
    pc,                \* position of the run
    source,            \* the source folder: "dir", "absent" or "file"
    listing,           \* os.listdir(source): the names, in its order
    output,            \* the output folder: "absent", "existing", "created"
    file_list,         \* process_folder: the PDF names to process
    files_to_process,  \* ocr.py main: the PDF names to process
    idx,               \* position of the for loop in the list, from 1
    pdf,               \* what analyze_pdf_pages met on disk, in this round
    pages_to_ocr,      \* the list analyze_pdf_pages returned, in this round
    results,           \* per file of file_list: how its analysis ended
    spawns,            \* per file of file_list: ocrmypdf processes started
    command,           \* argv of the ocrmypdf process the last step started
    procs,             \* per file of file_list: how its ocrmypdf process ended
    printed,           \* what the last step printed
    worker_calls       \* ocr.py: the files run_ocr_on_file was called with

vars ==
    << script, pc, source, listing, output, file_list, files_to_process, idx,
       pdf, pages_to_ocr, results, spawns, command, procs, printed, worker_calls >>

\* ------------------------------------------------------------ page texts
\* The string extract_text() returns, kept as three lengths: the leading
\* whitespace, the part from the first to the last non-whitespace character
\* (0 when there is none), the trailing whitespace.  raises = TRUE stands
\* for extract_text() raising instead of returning.
Text(l, c, t) == [raises |-> FALSE, lead |-> l, core |-> c, trail |-> t]

ExtractError == [raises |-> TRUE, lead |-> 0, core |-> 0, trail |-> 0]

Texts ==
    { Text(2, 0, 0), Text(0, 10, 0), Text(0, 40, 0), Text(1, 52, 2),
      Text(0, 53, 0), Text(0, 100, 0) }

PageOutcomes == Texts \cup {ExtractError}

\* The page texts of a batch run: at the threshold, above it, or raising.
BatchPageOutcomes == { Text(1, 52, 2), Text(0, 53, 0), ExtractError }

SeqsUpTo(S, n) == UNION { [1..k -> S] : k \in 0..n }

\* What pypdf.PdfReader(file_path) meets: no such file, a file it cannot
\* read, or a document with its pages.
Pdfs(outcomes, n) ==
    { [open |-> "missing", pages |-> <<>>], [open |-> "corrupt", pages |-> <<>>] }
    \cup { [open |-> "ok", pages |-> ps] : ps \in SeqsUpTo(outcomes, n) }

\* str.strip(): leading and trailing whitespace removed.
strip(text) == [text EXCEPT !.lead = 0, !.trail = 0]

\* len() of a string.
len(text) == text.lead + text.core + text.trail

\* ------------------------------------------------------ analyze_pdf_pages
NeedsOcrLoose(text) == len(text) <= THRESHOLD + 1

NeedsOcrStrict(text) == len(text) < THRESHOLD

\* The test of line 44, on the stripped text.
NeedsOcr(text) == len(text) <= THRESHOLD

PageNumberZeroBased(i) == i

\* Line 45: the number appended for the loop index i of range(num_pages).
PageNumber(i) == i + 1

\* The loop of lines 35-45 from index i on, acc being pages_needing_ocr so
\* far.  An exception of extract_text() leaves the loop and the function.
RECURSIVE CheckPages(_, _, _)
CheckPages(pages, i, acc) ==
    IF i >= Len(pages)
    THEN [raised |-> FALSE, pages |-> acc]
    ELSE IF pages[i + 1].raises
         THEN [raised |-> TRUE, pages |-> <<>>]
         ELSE LET text == strip(pages[i + 1])
              IN  CheckPages(pages, i + 1,
                             IF NeedsOcr(text) THEN Append(acc, PageNumber(i)) ELSE acc)

OpenFailureRaises(file) ==
    IF file.open = "corrupt"
    THEN [raised |-> TRUE, pages |-> <<>>, out |-> <<>>]
    ELSE [raised |-> FALSE, pages |-> <<>>, out |-> <<"file not found">>]

\* Lines 19-26: the two except clauses around PdfReader(file_path).
OpenFailure(file) ==
    IF file.open = "missing"
    THEN [raised |-> FALSE, pages |-> <<>>, out |-> <<"file not found">>]
    ELSE [raised |-> FALSE, pages |-> <<>>, out |-> <<"error reading PDF">>]

\* analyze_pdf_pages(file_path): raised tells whether an exception left the
\* function, pages is the list returned, out what was printed.
analyze_pdf_pages(file) ==
    IF file.open # "ok"
    THEN OpenFailure(file)
    ELSE LET r == CheckPages(file.pages, 0, <<>>)
         IN  IF r.raised
             THEN [raised |-> TRUE, pages |-> <<>>, out |-> <<"analyzing">>]
             ELSE [raised |-> FALSE, pages |-> r.pages,
                   out |-> <<"analyzing", "analysis complete",
                             IF r.pages # <<>> THEN "found pages" ELSE "found no pages">>]

\* ------------------------------------------------------------ file names
\* A directory entry: its place in the listing stands for the stem of the
\* name, the suffix is what the endswith() tests read.
Suffixes == { ".pdf", ".PDF", "_ocr.pdf", ".txt" }

Name(k, sfx) == [id |-> k, suffix |-> sfx]

NoName == [id |-> 0, suffix |-> ""]

\* os.path.join(folder, filename) and os.path.basename(path).
join(folder, filename) == [folder |-> folder, name |-> filename]

basename(path) == path.name

NoPath == join("", NoName)

Listings(n) ==
    { [k \in 1..Len(sfxs) |-> Name(k, sfxs[k])] : sfxs \in SeqsUpTo(Suffixes, n) }

\* str.lower() on the suffix of a name.
lower(sfx) == IF sfx = ".PDF" THEN ".pdf" ELSE sfx

\* str.endswith(tail) on the suffix of a name.
endswith(sfx, tail) ==
    \/ sfx = tail
    \/ sfx = "_ocr.pdf" /\ tail = ".pdf"

\* check_ocr.py line 113: the test of the list comprehension.
IsPdf(f) == endswith(f.suffix, ".pdf")

\* ocr.py lines 79-80: the test of the list comprehension.
IsNewPdf(f) ==
    /\ endswith(lower(f.suffix), ".pdf")
    /\ ~endswith(lower(f.suffix), OUTPUT_SUFFIX \o ".pdf")

\* ------------------------------------------------------- run_ocr_for_file
SkipsOcrNever(pages) == FALSE

\* Line 68: not pages_to_ocr.
SkipsOcr(pages) == pages = <<>>

\* Line 76: ",".join(map(str, pages_to_ocr)), kept as the joined items.
PagesArg(pages) == [k \in 1..Len(pages) |-> ToString(pages[k])]

NoCommand ==
    [exe |-> "", lang |-> "", mode |-> "", pages |-> <<>>,
     input |-> NoPath, output |-> NoPath]

CommandForced(input_file, pages) ==
    [exe |-> "ocrmypdf", lang |-> "ell+eng+tur", mode |-> "--force-ocr",
     pages |-> <<>>, input |-> input_file,
     output |-> join("output_folder", basename(input_file))]

\* Lines 73-85: the argv of the OCR process.
Command(input_file, pages) ==
    [exe |-> "ocrmypdf", lang |-> "ell+eng+tur", mode |-> "--redo-ocr --pages",
     pages |-> PagesArg(pages), input |-> input_file,
     output |-> join("output_folder", basename(input_file))]

\* How subprocess.run(command, check=True) can end.
Outcomes == { "ok", "nonzero", "notfound" }

SubprocessUncaught(outcome) ==
    CASE outcome = "ok" -> [raised |-> FALSE, out |-> <<"OCR completed">>]
      [] outcome = "nonzero" -> [raised |-> TRUE, out |-> <<>>]
      [] OTHER -> [raised |-> FALSE, out |-> <<"ocrmypdf not found">>]

\* Lines 88-94: the try around subprocess.run and its two except clauses.
Subprocess(outcome) ==
    CASE outcome = "ok" -> [raised |-> FALSE, out |-> <<"OCR completed">>]
      [] outcome = "nonzero" -> [raised |-> FALSE, out |-> <<"ocrmypdf failed">>]
      [] OTHER -> [raised |-> FALSE, out |-> <<"ocrmypdf not found">>]

\* run_ocr_for_file(input_file, output_folder, pages_to_ocr), with the way
\* the OCR process ends when one is started.
run_ocr_for_file(input_file, pages, outcome) ==
    IF SkipsOcr(pages)
    THEN [spawned |-> FALSE, command |-> NoCommand, proc |-> "none",
          raised |-> FALSE, out |-> <<"no pages to OCR">>]
    ELSE LET h == Subprocess(outcome)
         IN  [spawned |-> TRUE, command |-> Command(input_file, pages),
              proc |-> outcome, raised |-> h.raised,
              out |-> <<"running command">> \o h.out]

\* --------------------------------------------------------- process_folder
\* No file is being analyzed: before the loop and between two rounds of it.
NoPdf == [open |-> "none", pages |-> <<>>]

EnsureOutputNever(o) == o

\* Lines 108-110: makedirs when the output folder does not exist.
EnsureOutput(o) == IF o = "absent" THEN "created" ELSE o

\* Lines 104-120: the checks before the loop.
PF_Setup ==
    /\ script = "check_ocr"
    /\ pc = "start"
    /\ IF source # "dir"
       THEN /\ pc' = "done"
            /\ printed' = <<"source folder does not exist">>
            /\ UNCHANGED << output, file_list, idx, results, spawns, procs >>
       ELSE LET fl == SelectSeq(listing, IsPdf)
                o == EnsureOutput(output)
            IN  /\ output' = o
                /\ file_list' = fl
                /\ results' = [k \in 1..Len(fl) |-> "pending"]
                /\ spawns' = [k \in 1..Len(fl) |-> 0]
                /\ procs' = [k \in 1..Len(fl) |-> "none"]
                /\ idx' = 1
                /\ pc' = IF fl = <<>> THEN "done" ELSE "analyze"
                /\ printed' =
                       (IF o # output THEN <<"created output folder">> ELSE <<>>)
                       \o (IF fl = <<>> THEN <<"no PDF files found">>
                           ELSE <<"found PDF files">>)
    /\ UNCHANGED << script, source, listing, files_to_process, pdf, pages_to_ocr,
                    command, worker_calls >>

\* Lines 126-129: analyze_pdf_pages on the file the loop is at.  What the
\* file holds is met when it is opened.
PF_Analyze ==
    /\ script = "check_ocr"
    /\ pc = "analyze"
    /\ \E met \in Pdfs(BatchPageOutcomes, MaxPages) :
          LET r == analyze_pdf_pages(met)
          IN  /\ pdf' = met
              /\ printed' = r.out
              /\ IF r.raised
                 THEN /\ pc' = "crashed"
                      /\ results' = [results EXCEPT ![idx] = "raised"]
                      /\ UNCHANGED pages_to_ocr
                 ELSE /\ pc' = "ocr"
                      /\ results' =
                             [results EXCEPT ![idx] =
                                 IF met.open # "ok" THEN met.open
                                 ELSE IF r.pages = <<>> THEN "empty" ELSE "flagged"]
                      /\ pages_to_ocr' = r.pages
    /\ command' = NoCommand
    /\ UNCHANGED << script, source, listing, output, file_list, files_to_process,
                    idx, spawns, procs, worker_calls >>

\* Lines 132-134: run_ocr_for_file on the same file, then the next file.
\* The round ends here, and with it what it read and computed.
PF_RunOcr ==
    /\ script = "check_ocr"
    /\ pc = "ocr"
    /\ \E outcome \in Outcomes :
          LET file_path == join("source_folder", file_list[idx])
              r == run_ocr_for_file(file_path, pages_to_ocr, outcome)
          IN  /\ printed' = r.out
              /\ procs' = [procs EXCEPT ![idx] = r.proc]
              /\ command' = r.command
              /\ spawns' = IF r.spawned THEN [spawns EXCEPT ![idx] = @ + 1]
                            ELSE spawns
              /\ IF r.raised
                 THEN /\ pc' = "crashed"
                      /\ UNCHANGED idx
                 ELSE /\ idx' = idx + 1
                      /\ pc' = IF idx < Len(file_list) THEN "analyze" ELSE "done"
    /\ pdf' = NoPdf
    /\ pages_to_ocr' = <<>>
    /\ UNCHANGED << script, source, listing, output, file_list, files_to_process,
                    results, worker_calls >>

\* ------------------------------------------------------------ ocr.py main
PartialCalled(calls, f) == Append(calls, f)

\* Lines 90-96: partial(run_ocr_on_file, ...) builds a callable and drops
\* it; run_ocr_on_file is not called.
Partial(calls, f) == calls

\* Lines 72-85: the listing and the filter.
Main_List ==
    /\ script = "ocr"
    /\ pc = "start"
    /\ IF source = "absent"
       THEN /\ pc' = "done"
            /\ printed' = <<"directory not found">>
            /\ UNCHANGED << files_to_process, idx >>
       ELSE IF source = "file"
       THEN /\ pc' = "crashed"
            /\ printed' = <<>>
            /\ UNCHANGED << files_to_process, idx >>
       ELSE LET fl == SelectSeq(listing, IsNewPdf)
            IN  /\ files_to_process' = fl
                /\ idx' = 1
                /\ pc' = IF fl = <<>> THEN "done" ELSE "visit"
                /\ printed' = IF fl = <<>> THEN <<"no new PDF files">>
                              ELSE <<"found PDF files">>
    /\ UNCHANGED << script, source, listing, output, file_list, pdf, pages_to_ocr,
                    results, spawns, command, procs, worker_calls >>

\* Lines 88-97: one round of the for loop.
Main_Visit ==
    /\ script = "ocr"
    /\ pc = "visit"
    /\ printed' = <<"file name">>
    /\ worker_calls' = Partial(worker_calls, files_to_process[idx])
    /\ idx' = idx + 1
    /\ pc' = IF idx < Len(files_to_process) THEN "visit" ELSE "done"
    /\ UNCHANGED << script, source, listing, output, file_list, files_to_process,
                    pdf, pages_to_ocr, results, spawns, command, procs >>

\* --------------------------------------------------------- specifications
Idle ==
    /\ file_list = <<>>
    /\ files_to_process = <<>>
    /\ idx = 0
    /\ pages_to_ocr = <<>>
    /\ results = <<>>
    /\ spawns = <<>>
    /\ command = NoCommand
    /\ procs = <<>>
    /\ printed = <<>>
    /\ worker_calls = <<>>

\* A run of either script on any source folder and output folder.
Init ==
    /\ script \in { "check_ocr", "ocr" }
    /\ pc = "start"
    /\ source \in { "dir", "absent", "file" }
    /\ listing \in (IF source = "dir" THEN Listings(MaxFiles) ELSE { <<>> })
    /\ output \in { "absent", "existing" }
    /\ pdf = NoPdf
    /\ Idle

Next == PF_Setup \/ PF_Analyze \/ PF_RunOcr \/ Main_List \/ Main_Visit

Spec == Init /\ [][Next]_vars

\* analyze_pdf_pages called on its own, on any file.
InitAnalyze ==
    /\ script = "analyze_pdf_pages"
    /\ pc = "call"
    /\ source = "dir"
    /\ listing = <<>>
    /\ output = "existing"
    /\ pdf \in Pdfs(PageOutcomes, MaxDocPages)
    /\ Idle

CallAnalyze ==
    /\ script = "analyze_pdf_pages"
    /\ pc = "call"
    /\ LET r == analyze_pdf_pages(pdf)
       IN  /\ pc' = IF r.raised THEN "raised" ELSE "returned"
           /\ pages_to_ocr' = r.pages
           /\ printed' = r.out
    /\ UNCHANGED << script, source, listing, output, file_list, files_to_process,
                    idx, pdf, results, spawns, command, procs, worker_calls >>

NextAnalyze == CallAnalyze

SpecAnalyze == InitAnalyze /\ [][NextAnalyze]_vars

\* ----------------------------------------------------------------- claims
Listed(i) == \E k \in 1..Len(pages_to_ocr) : pages_to_ocr[k] = i

Failures == { "nonzero", "notfound" }

Unopened == { "missing", "corrupt" }

\* C1: a page whose stripped text is longer than 52 characters is never in
\* the list analyze_pdf_pages returns.
C1_LongPageNotListed ==
    pc = "returned" =>
        \A i \in 1..Len(pdf.pages) : pdf.pages[i].core > 52 => ~Listed(i)

C1_Witness ==
    /\ pc = "returned"
    /\ \E i, j \in 1..Len(pdf.pages) :
          /\ pdf.pages[i].core = 53
          /\ pdf.pages[j].core = 52
          /\ ~Listed(i)
          /\ Listed(j)

C3_EmptyListNoOcr ==
    /\ [](script = "check_ocr" =>
             \A i \in DOMAIN results :
                 results[i] \in { "empty", "missing", "corrupt" } =>
                     spawns[i] = 0 /\ procs[i] = "none")
    /\ [][(pc = "ocr" /\ pages_to_ocr = <<>>) =>
             (spawns' = spawns /\ command' = NoCommand)]_vars

C3_Witness ==
    /\ pc = "done"
    /\ Len(file_list) = 2
    /\ results[1] = "empty"
    /\ results[2] = "flagged"
    /\ spawns = <<0, 1>>

\* C4: analyze_pdf_pages on a path that does not exist, or on a file that
\* cannot be opened as a PDF, prints an error and returns the empty list
\* without raising, and no OCR process is started for such a file.
C4_UnopenedReturnsEmpty ==
    script = "check_ocr" =>
        /\ (pc = "crashed" => pdf.open \notin Unopened)
        /\ (pc = "ocr" /\ pdf.open = "missing") =>
               (pages_to_ocr = <<>> /\ printed = <<"file not found">>)
        /\ (pc = "ocr" /\ pdf.open = "corrupt") =>
               (pages_to_ocr = <<>> /\ printed = <<"error reading PDF">>)
        /\ \A i \in DOMAIN results :
               results[i] \in Unopened => spawns[i] = 0

C4_Witness ==
    /\ pc = "done"
    /\ results = <<"missing", "corrupt">>
    /\ spawns = <<0, 0>>

\* C5: an OCR process that exits non-zero, or whose executable is missing,
\* is reported, is not started again for the file, and does not end the
\* batch: the loop goes on to the next file.
C5_OcrFailureNotFatal ==
    /\ [](script = "check_ocr" =>
             /\ \A i \in DOMAIN spawns : spawns[i] <= 1
             /\ pc = "crashed" => (results[idx] = "raised" /\ procs[idx] = "none")
             /\ pc = "done" =>
                    \A i \in DOMAIN results : results[i] # "pending")
    /\ [][(pc = "ocr" /\ procs'[idx] \in Failures) =>
             /\ printed' \in { <<"running command", "ocrmypdf failed">>,
                               <<"running command", "ocrmypdf not found">> }
             /\ idx' = idx + 1
             /\ pc' = IF idx < Len(file_list) THEN "analyze" ELSE "done"]_vars

C5_Witness ==
    /\ pc = "done"
    /\ Len(file_list) = 2
    /\ procs[1] = "nonzero"
    /\ results[2] = "flagged"
    /\ spawns = <<1, 1>>
    /\ procs[2] = "notfound"

\* C6: no error met while a PDF is opened or its pages are read ends
\* process_folder abnormally.
C6_NoErrorEscalates == script = "check_ocr" => pc # "crashed"

C8_OutputFolderExists ==
    /\ []((script = "check_ocr" /\ source = "dir" /\ pc # "start") =>
             output # "absent")
    /\ [][output = "existing" => output' = "existing"]_vars

C8_Witness ==
    /\ script = "check_ocr"
    /\ output = "created"
    /\ pc = "done"
    /\ file_list = <<>>

C10_OneOcrPerFlaggedFile ==
    /\ [](script = "check_ocr" =>
             \A i \in DOMAIN results :
                 /\ (results[i] = "flagged" /\ (i < idx \/ pc = "done"))
                        => spawns[i] = 1
                 /\ (pc \in { "analyze", "ocr" } /\ i >= idx) => spawns[i] = 0)
    /\ [][(\E i \in DOMAIN spawns : spawns'[i] # spawns[i]) =>
             /\ pc = "ocr"
             /\ results[idx] = "flagged"
             /\ pages_to_ocr = analyze_pdf_pages(pdf).pages
             /\ command'.exe = "ocrmypdf"
             /\ command'.mode = "--redo-ocr --pages"
             /\ command'.input = join("source_folder", file_list[idx])
             /\ command'.output = join("output_folder", file_list[idx])
             /\ Len(command'.pages) = Len(pages_to_ocr)
             /\ \A k \in 1..Len(pages_to_ocr) :
                    command'.pages[k] = ToString(pages_to_ocr[k])
             /\ pc' \in { "analyze", "done" }]_vars

C10_Witness ==
    /\ pc = "analyze"
    /\ idx = 2
    /\ results[1] = "flagged"
    /\ spawns = <<1, 0>>
    /\ command.pages = <<"1", "2">>
    /\ command.input.name = file_list[1]

====
